---- MODULE Spec2Model ----
(***************************************************************************)
(* Model of the genji document stream pipeline (document/stream.go: the    *)
(* part of src/sql/query/expr/dot_notation_test.go from line 195 on), of   *)
(* the AND / OR expression operators (lines 51-114) and of the memory      *)
(* engine's write transaction as exercised by src/engine/memory/           *)
(* table_test.go.                                                          *)
(*                                                                         *)
(* Documents are integers.  An iterator is a record tagged by kind:        *)
(*   "docs"   documentsIterator, a sequence of documents                   *)
(*   "multi"  multiIterator, a sequence of iterators                       *)
(*   "stream" Stream, with fields it and op                                *)
(*   "nil"    the nil interface value                                      *)
(* A stream operator is a record tagged by kind ("map", "filter", "limit", *)
(* "offset", or "nil" for the nil StreamOperator).                         *)
(***************************************************************************)
EXTENDS Integers, Sequences, FiniteSets, TLC

\* Longest source document sequence handed to NewStream.
MaxLen == 3
\* Largest argument of Limit and Offset, and latest failing callback call.
MaxN == 2
\* Largest number of Pipe/Append calls applied to one stream.
MaxOps == 3
\* Largest number of CreateTable/Insert/Delete calls in one engine run.
MaxSteps == 5

VARIABLES
    stream,   \* the Stream value built so far
    nops,     \* number of Map/Filter/Limit/Offset/Append calls applied to it
    res,      \* outcome of the last Iterate / Count / First call on it
    ex,       \* outcome of the last And / Or evaluation
    eng,      \* memory engine: committed stores, open transaction, handles
    cat,      \* catalog: the table and index config stores and the last call
    dot,      \* outcome of the last dot path evaluation
    ps        \* parser: the tokens of the input, the position, what was parsed

vars == <<stream, nops, res, ex, eng, cat, dot, ps>>

----------------------------------------------------------------------------
(* Errors and nil values *)

Nil == "nil"
ErrStreamClosed == "ErrStreamClosed"
\* The nil Document.
NilDoc == 0

NilIt == [kind |-> "nil"]
NilOp == [kind |-> "nil"]

Min(a, b) == IF a < b THEN a ELSE b

----------------------------------------------------------------------------
(* Iterators and streams *)

\* NewIterator(documents...)
NewIterator(documents) == [kind |-> "docs", docs |-> documents]

\* NewStream(it)
NewStream(it) == [kind |-> "stream", it |-> it, op |-> NilOp]

\* The zero value Stream{}.
ZeroStream == [kind |-> "stream", it |-> NilIt, op |-> NilOp]

\* s.Pipe(op)
Pipe(s, op) == [kind |-> "stream", it |-> s, op |-> op]

\* The function handed to Map: on document `on` it returns (nil, out),
\* on every other document r it returns (r + add, nil).
MapFn(on, out, add) == [on |-> on, out |-> out, add |-> add]

\* The function handed to Filter: on document `on` it returns `out`
\* ("false", or an error), on every other document it returns (true, nil).
FilterFn(on, out) == [on |-> on, out |-> out]

\* s.Map(fn)
StreamMap(s, fn) == Pipe(s, [kind |-> "map", fn |-> fn])

\* s.Filter(fn)
StreamFilter(s, fn) == Pipe(s, [kind |-> "filter", fn |-> fn])

\* s.Limit(n)
StreamLimit(s, n) == Pipe(s, [kind |-> "limit", n |-> n])

\* s.Offset(n)
StreamOffset(s, n) == Pipe(s, [kind |-> "offset", n |-> n])

\* s.Append(it): s.it becomes a multiIterator, s.op is kept.
StreamAppend(s, it) ==
    IF s.it.kind = "multi"
    THEN [s EXCEPT !.it = [kind |-> "multi",
                           iterators |-> Append(s.it.iterators, it)]]
    ELSE [s EXCEPT !.it = [kind |-> "multi", iterators |-> <<s, it>>]]

----------------------------------------------------------------------------
(* One call of the function a StreamOperator produced.  c is the closure's *)
(* counter (count of Limit, skipped of Offset).                            *)

OpResult(r, err, c) == [r |-> r, err |-> err, c |-> c]

\* The closure Map pipes: fn itself.
MapOp(op, c, r) ==
    IF r = op.fn.on
    THEN OpResult(NilDoc, op.fn.out, c)
    ELSE OpResult(r + op.fn.add, Nil, c)

\* The closure Filter pipes.
FilterOp(op, c, r) ==
    IF r = op.fn.on
    THEN IF op.fn.out = "false"
         THEN OpResult(NilDoc, Nil, c)
         ELSE OpResult(NilDoc, op.fn.out, c)
    ELSE OpResult(r, Nil, c)

\* The closure Limit pipes.
LimitOp(op, c, r) ==
    IF c < op.n
    THEN OpResult(r, Nil, c + 1)
    ELSE OpResult(NilDoc, ErrStreamClosed, c)

\* Offset that drops one document more than asked.
OffsetOp_OffByOne(op, c, r) ==
    IF c <= op.n
    THEN OpResult(NilDoc, Nil, c + 1)
    ELSE OpResult(r, Nil, c)

\* The closure Offset pipes.
OffsetOp(op, c, r) ==
    IF c < op.n
    THEN OpResult(NilDoc, Nil, c + 1)
    ELSE OpResult(r, Nil, c)

\* opFn(r) for the opFn that s.op() returned.
OpFn(op, c, r) ==
    CASE op.kind = "map" -> MapOp(op, c, r)
      [] op.kind = "filter" -> FilterOp(op, c, r)
      [] op.kind = "limit" -> LimitOp(op, c, r)
      [] op.kind = "offset" -> OffsetOp(op, c, r)

----------------------------------------------------------------------------
(* Iteration.  The callback handed down to the source is a chain of        *)
(* closures, one per Stream.Iterate frame that has an operator, the frame  *)
(* nearest to the source first, followed by the caller's fn.  st.cs holds  *)
(* the counter of each closure, st.out the documents fn was called with,   *)
(* st.events every non-nil error an operator or fn returned, with the      *)
(* document it was returned on and the number of fn calls made so far.     *)
(* st.left holds, for each frame in the order the frames were entered, the *)
(* counter its closure ended with; st.saved is st.left of the previous     *)
(* call on the same stream (empty for a first call).                       *)

\* The caller's fn: it returns fn.err on its fn.at-th call and on every
\* later call, nil before (never an error when fn.at = 0).
CallFn(fn, st, r) ==
    LET out1 == Append(st.out, r)
        err == IF fn.at > 0 /\ Len(out1) >= fn.at THEN fn.err ELSE Nil
    IN [err |-> err,
        st |-> [st EXCEPT !.out = out1,
                          !.events = IF err = Nil THEN @
                                     ELSE Append(@, [src |-> "fn", err |-> err,
                                                     doc |-> r,
                                                     calls |-> Len(out1)])]]

RECURSIVE Closure(_, _, _, _, _)
\* The closure Stream.Iterate hands to s.it.Iterate, for frame i of chain.
Closure(chain, i, fn, st, r) ==
    IF i > Len(chain)
    THEN CallFn(fn, st, r)
    ELSE LET o == OpFn(chain[i], st.cs[i], r)
             st1 == [st EXCEPT !.cs[i] = o.c]
         IN IF o.err # Nil
            THEN [err |-> o.err,
                  st |-> [st1 EXCEPT !.events =
                             Append(@, [src |-> "op", err |-> o.err, doc |-> r,
                                        calls |-> Len(st.out)])]]
            ELSE IF o.r = NilDoc
            THEN [err |-> Nil, st |-> st1]
            ELSE Closure(chain, i + 1, fn, st1, o.r)

RECURSIVE IteratorIterate(_, _, _, _)
RECURSIVE DocumentsIterate(_, _, _, _, _)
RECURSIVE MultiIterate(_, _, _, _, _)

\* The loop of documentsIterator.Iterate after fn(rr[i]) returned c.
DocumentsNext(rr, i, chain, fn, c) ==
    IF c.err # Nil THEN c ELSE DocumentsIterate(rr, i + 1, chain, fn, c.st)

\* documentsIterator.Iterate, from document i on.
DocumentsIterate(rr, i, chain, fn, st) ==
    IF i > Len(rr)
    THEN [err |-> Nil, st |-> st]
    ELSE DocumentsNext(rr, i, chain, fn, Closure(chain, 1, fn, st, rr[i]))

\* multiIterator.Iterate that goes on to the next iterator after an error.
MultiIterate_IgnoreErr(iterators, i, chain, fn, st) ==
    IF i > Len(iterators)
    THEN [err |-> Nil, st |-> st]
    ELSE LET c == IteratorIterate(iterators[i], chain, fn, st)
         IN MultiIterate(iterators, i + 1, chain, fn, c.st)

\* The loop of multiIterator.Iterate after iterators[i].Iterate returned c.
MultiNext(iterators, i, chain, fn, c) ==
    IF c.err # Nil THEN c ELSE MultiIterate(iterators, i + 1, chain, fn, c.st)

\* multiIterator.Iterate, from iterator i on.
MultiIterate(iterators, i, chain, fn, st) ==
    IF i > Len(iterators)
    THEN [err |-> Nil, st |-> st]
    ELSE MultiNext(iterators, i, chain, fn,
                   IteratorIterate(iterators[i], chain, fn, st))

\* Stream.Iterate without the translation of ErrStreamClosed.
StreamResult_Surface(err) == err

\* The error Stream.Iterate returns, given the error s.it.Iterate returned.
StreamResult(err) == IF err # ErrStreamClosed THEN err ELSE Nil

\* An operator whose counter lives on from one Iterate to the next.
NewOpState_Kept(saved, k) == IF k <= Len(saved) THEN saved[k] ELSE 0

\* opFn := s.op(): the counter of the closure made for the k-th frame of
\* this call (var count int, var skipped int).
NewOpState(saved, k) == 0

\* Stream.Iterate makes the closure of its frame, the k-th of the call.
EnterFrame(st, k) ==
    [st EXCEPT !.cs = <<NewOpState(st.saved, k)>> \o @, !.left = Append(@, 0)]

\* Stream.Iterate returns, s.it.Iterate having returned c.
LeaveFrame(k, c) ==
    [err |-> StreamResult(c.err),
     st |-> [c.st EXCEPT !.cs = Tail(@), !.left[k] = c.st.cs[1]]]

\* The same two steps with the closure placed behind those of the frames
\* above.
EnterFrame_Last(st, k) ==
    [st EXCEPT !.cs = @ \o <<NewOpState(st.saved, k)>>, !.left = Append(@, 0)]
LeaveFrame_Last(k, c) ==
    [err |-> StreamResult(c.err),
     st |-> [c.st EXCEPT !.cs = SubSeq(@, 1, Len(@) - 1),
                         !.left[k] = c.st.cs[Len(c.st.cs)]]]

\* Stream.Iterate that applies the operator of the outer stream first.
StreamIterate_OuterFirst(s, chain, fn, st) ==
    IF s.it.kind = "nil"
    THEN [err |-> Nil, st |-> st]
    ELSE IF s.op.kind = "nil"
    THEN IteratorIterate(s.it, chain, fn, st)
    ELSE LeaveFrame_Last(Len(st.left) + 1,
                         IteratorIterate(s.it, chain \o <<s.op>>, fn,
                                         EnterFrame_Last(st, Len(st.left) + 1)))

\* Stream.Iterate.
StreamIterate(s, chain, fn, st) ==
    IF s.it.kind = "nil"
    THEN [err |-> Nil, st |-> st]
    ELSE IF s.op.kind = "nil"
    THEN IteratorIterate(s.it, chain, fn, st)
    ELSE LeaveFrame(Len(st.left) + 1,
                    IteratorIterate(s.it, <<s.op>> \o chain, fn,
                                    EnterFrame(st, Len(st.left) + 1)))

\* it.Iterate(fn) through the Iterator interface.
IteratorIterate(it, chain, fn, st) ==
    CASE it.kind = "docs" -> DocumentsIterate(it.docs, 1, chain, fn, st)
      [] it.kind = "multi" -> MultiIterate(it.iterators, 1, chain, fn, st)
      [] it.kind = "stream" -> StreamIterate(it, chain, fn, st)

\* What the caller of s.Iterate(fn) observes.
IterateResult(c) ==
    [err |-> c.err, out |-> c.st.out, events |-> c.st.events, left |-> c.st.left]

\* s.Iterate(fn) called from outside, after a call that left the closures'
\* counters at saved.
IterateFrom(s, fn, saved) ==
    IterateResult(StreamIterate(s, <<>>, fn,
                                [cs |-> <<>>, out |-> <<>>, events |-> <<>>,
                                 saved |-> saved, left |-> <<>>]))

\* s.Iterate(fn) called from outside.
Iterate(s, fn) ==
    LET c == IterateFrom(s, fn, <<>>)
    IN [err |-> c.err, out |-> c.out, events |-> c.events]

\* A callback that never returns an error (the one Count passes).
FnNever == [at |-> 0, err |-> Nil]
\* The callback First passes.
FnFirst == [at |-> 1, err |-> ErrStreamClosed]

\* s.Count(), after a call that left the closures' counters at saved.
CountFrom(s, saved) ==
    LET c == IterateFrom(s, FnNever, saved)
    IN [counter |-> Len(c.out), err |-> c.err, left |-> c.left]

\* s.Count()
Count(s) ==
    LET c == CountFrom(s, <<>>)
    IN [counter |-> c.counter, err |-> c.err]

\* s.First(): r is assigned on every call of the callback.
First(s) ==
    LET c == Iterate(s, FnFirst)
    IN [r |-> IF c.out = <<>> THEN NilDoc ELSE c.out[Len(c.out)],
        err |-> IF c.err = ErrStreamClosed THEN Nil ELSE c.err]

----------------------------------------------------------------------------
(* Inputs *)

\* Source documents 1..n.
Source(n) == [i \in 1..n |-> i]
\* The documents of the iterators handed to Append.
Others == {<<21>>, <<21, 22>>}
\* Documents on which a Map or Filter function misbehaves.
OnDocs == {2, 21}
MapFns ==
    {MapFn(0, Nil, 100)}
        \cup {MapFn(d, e, 0) : d \in OnDocs, e \in {ErrStreamClosed, "ErrMap"}}
FilterFns ==
    {FilterFn(0, Nil)}
        \cup {FilterFn(d, e) : d \in OnDocs, e \in {"false", "ErrFilter"}}
Fns ==
    {FnNever}
        \cup {[at |-> k, err |-> e] : k \in 1..MaxN, e \in {ErrStreamClosed, "ErrFn"}}

\* No call made.  again tells that the call was made a second time on the
\* same stream; err2, out2 and counter2 are what the second call returned.
NoRes == [call |-> "none", fn |-> FnNever, err |-> Nil, out |-> <<>>,
          events |-> <<>>, counter |-> 0, r |-> NilDoc, left |-> <<>>,
          again |-> FALSE, err2 |-> Nil, out2 |-> <<>>, counter2 |-> 0]

NoEx == [op |-> "none"]
NoEng == [tx |-> "unused"]
NoCat == [op |-> "unused"]
NoDot == [op |-> "none"]
NoPs == [pc |-> "unused"]

----------------------------------------------------------------------------
(* The stream state machine *)

InitStream ==
    /\ stream \in {ZeroStream} \cup {NewStream(NewIterator(Source(n))) : n \in 0..MaxLen}
    /\ nops = 0
    /\ res = NoRes
    /\ ex = NoEx
    /\ eng = NoEng
    /\ cat = NoCat
    /\ dot = NoDot
    /\ ps = NoPs

Build(s) ==
    /\ nops < MaxOps
    /\ stream' = s
    /\ nops' = nops + 1
    /\ res' = NoRes
    /\ UNCHANGED <<ex, eng, cat, dot, ps>>

DoMap == \E fn \in MapFns : Build(StreamMap(stream, fn))
DoFilter == \E fn \in FilterFns : Build(StreamFilter(stream, fn))
DoLimit == \E n \in 0..MaxN : Build(StreamLimit(stream, n))
DoOffset == \E n \in 0..MaxN : Build(StreamOffset(stream, n))
DoAppend == \E d \in Others : Build(StreamAppend(stream, NewIterator(d)))

DoIterate ==
    \E fn \in Fns :
        LET c == IterateFrom(stream, fn, <<>>)
        IN /\ res.call = "none"
           /\ res' = [NoRes EXCEPT !.call = "Iterate", !.fn = fn, !.err = c.err,
                                   !.out = c.out, !.events = c.events,
                                   !.left = c.left]
           /\ UNCHANGED <<stream, nops, ex, eng, cat, dot, ps>>

\* The same Iterate a second time on the same stream.
DoIterateAgain ==
    LET c == IterateFrom(stream, res.fn, res.left)
    IN /\ res.call = "Iterate" /\ ~res.again
       /\ res' = [res EXCEPT !.again = TRUE, !.err2 = c.err, !.out2 = c.out]
       /\ UNCHANGED <<stream, nops, ex, eng, cat, dot, ps>>

DoCount ==
    LET c == CountFrom(stream, <<>>)
    IN /\ res.call = "none"
       /\ res' = [NoRes EXCEPT !.call = "Count", !.counter = c.counter,
                               !.err = c.err, !.left = c.left]
       /\ UNCHANGED <<stream, nops, ex, eng, cat, dot, ps>>

\* Count a second time on the same stream.
DoCountAgain ==
    LET c == CountFrom(stream, res.left)
    IN /\ res.call = "Count" /\ ~res.again
       /\ res' = [res EXCEPT !.again = TRUE, !.err2 = c.err,
                             !.counter2 = c.counter]
       /\ UNCHANGED <<stream, nops, ex, eng, cat, dot, ps>>

DoFirst ==
    LET c == First(stream)
    IN /\ res.call = "none"
       /\ res' = [NoRes EXCEPT !.call = "First", !.fn = FnFirst, !.r = c.r,
                               !.err = c.err]
       /\ UNCHANGED <<stream, nops, ex, eng, cat, dot, ps>>

NextStream ==
    \/ DoMap
    \/ DoFilter
    \/ DoLimit
    \/ DoOffset
    \/ DoAppend
    \/ DoIterate
    \/ DoIterateAgain
    \/ DoCount
    \/ DoCountAgain
    \/ DoFirst

Spec == InitStream /\ [][NextStream]_vars

----------------------------------------------------------------------------
(* Expressions: AND and OR *)

\* document.Value: a type tag and a payload (0 is the zero value of a type).
Value(type, v) == [type |-> type, v |-> v]
nullLitteral == Value("null", 0)
falseLitteral == Value("bool", 0)
trueLitteral == Value("bool", 1)

\* Value.IsTruthy: not Null and different from the zero value of its type.
IsTruthy(v) == v.type # "null" /\ v.v # 0

\* An operand whose Eval returns (v, err).
Leaf(v, err) == [kind |-> "leaf", v |-> v, err |-> err]
\* And(a, b)
And(a, b) == [kind |-> "and", a |-> a, b |-> b]
\* Or(a, b)
Or(a, b) == [kind |-> "or", a |-> a, b |-> b]

\* The result of Eval, with the operands evaluated on the way, in order.
EvalResult(v, err, trace) == [v |-> v, err |-> err, trace |-> trace]

RECURSIVE Eval(_)

\* AndOp.Eval that evaluates both operands before it decides.
AndOpEval_Eager(op) ==
    LET a == Eval(op.a)
        b == Eval(op.b)
    IN IF a.err # Nil
       THEN EvalResult(falseLitteral, a.err, a.trace)
       ELSE IF b.err # Nil \/ ~IsTruthy(a.v) \/ ~IsTruthy(b.v)
       THEN EvalResult(falseLitteral, b.err, a.trace \o b.trace)
       ELSE EvalResult(trueLitteral, Nil, a.trace \o b.trace)

\* AndOp.Eval
AndOpEval(op) ==
    LET a == Eval(op.a)
    IN IF a.err # Nil \/ ~IsTruthy(a.v)
       THEN EvalResult(falseLitteral, a.err, a.trace)
       ELSE LET b == Eval(op.b)
            IN IF b.err # Nil \/ ~IsTruthy(b.v)
               THEN EvalResult(falseLitteral, b.err, a.trace \o b.trace)
               ELSE EvalResult(trueLitteral, Nil, a.trace \o b.trace)

\* OrOp.Eval that takes an error of b for a falsy b.
OrOpEval_Swallow(op) ==
    LET a == Eval(op.a)
    IN IF a.err # Nil
       THEN EvalResult(falseLitteral, a.err, a.trace)
       ELSE IF IsTruthy(a.v)
       THEN EvalResult(trueLitteral, Nil, a.trace)
       ELSE LET b == Eval(op.b)
            IN IF b.err = Nil /\ IsTruthy(b.v)
               THEN EvalResult(trueLitteral, Nil, a.trace \o b.trace)
               ELSE EvalResult(falseLitteral, Nil, a.trace \o b.trace)

\* OrOp.Eval
OrOpEval(op) ==
    LET a == Eval(op.a)
    IN IF a.err # Nil
       THEN EvalResult(falseLitteral, a.err, a.trace)
       ELSE IF IsTruthy(a.v)
       THEN EvalResult(trueLitteral, Nil, a.trace)
       ELSE LET b == Eval(op.b)
            IN IF b.err # Nil
               THEN EvalResult(falseLitteral, b.err, a.trace \o b.trace)
               ELSE IF IsTruthy(b.v)
               THEN EvalResult(trueLitteral, Nil, a.trace \o b.trace)
               ELSE EvalResult(falseLitteral, Nil, a.trace \o b.trace)

\* Expr.Eval
Eval(e) ==
    CASE e.kind = "leaf" -> EvalResult(e.v, e.err, <<e>>)
      [] e.kind = "and" -> AndOpEval(e)
      [] e.kind = "or" -> OrOpEval(e)

Values ==
    {nullLitteral, falseLitteral, trueLitteral, Value("int", 0), Value("int", 7),
     Value("text", 0), Value("text", 1)}
Leaves ==
    {Leaf(v, Nil) : v \in Values}
        \cup {Leaf(nullLitteral, "ErrEval"), Leaf(nullLitteral, "ErrOther")}
InnerLeaves == {Leaf(trueLitteral, Nil), Leaf(nullLitteral, Nil),
                Leaf(nullLitteral, "ErrEval")}
Operands ==
    Leaves \cup {And(a, b) : a, b \in InnerLeaves} \cup {Or(a, b) : a, b \in InnerLeaves}

InitExpr ==
    /\ stream = ZeroStream
    /\ nops = 0
    /\ res = NoRes
    /\ ex = NoEx
    /\ eng = NoEng
    /\ cat = NoCat
    /\ dot = NoDot
    /\ ps = NoPs

EvalExpr(e) ==
    LET r == Eval(e)
    IN /\ ex.op = "none"
       /\ ex' = [op |-> e.kind, a |-> e.a, b |-> e.b, v |-> r.v, err |-> r.err,
                 trace |-> r.trace]
       /\ UNCHANGED <<stream, nops, res, eng, cat, dot, ps>>

EvalAnd == \E a, b \in Operands : EvalExpr(And(a, b))
EvalOr == \E a, b \in Operands : EvalExpr(Or(a, b))

NextExpr ==
    \/ EvalAnd
    \/ EvalOr

SpecExpr == InitExpr /\ [][NextExpr]_vars

----------------------------------------------------------------------------
(* The memory engine: tables changed in place by the write transaction,    *)
(* which keeps an undo log that Rollback replays backwards.                *)

TableNames == {"test", "other"}
Records == {"john", "jane"}
NilRecord == "nil"

NoTable == [exists |-> FALSE, rows |-> <<>>, lastKey |-> 0]

\* NewEngine(): no table, no transaction.  op and err are the last call and
\* the error it returned.  pre, created, inserted, log, deleted and rolled
\* record the tables at Begin, what the transaction created and inserted,
\* its inserts in order, the tables it deleted from, and whether Rollback
\* returned on it.
NewEngine ==
    [tables |-> [n \in TableNames |-> NoTable],
     tx |-> "none", writable |-> FALSE, undos |-> <<>>,
     pre |-> [n \in TableNames |-> NoTable],
     created |-> {}, inserted |-> {}, log |-> <<>>, deleted |-> {},
     rolled |-> FALSE, steps |-> 0, op |-> "NewEngine", err |-> Nil]

\* tx.Table(name)
Table(e, name) ==
    IF e.tables[name].exists THEN [err |-> Nil] ELSE [err |-> "ErrTableNotFound"]

\* The position of rowid in rows, 0 when absent.
RowIndex(rows, rowid) ==
    IF \E i \in DOMAIN rows : rows[i].rowid = rowid
    THEN CHOOSE i \in DOMAIN rows : rows[i].rowid = rowid
    ELSE 0

\* table.Record(rowid)
Record(e, name, rowid) ==
    LET rows == e.tables[name].rows
        i == RowIndex(rows, rowid)
    IN IF i = 0
       THEN [rec |-> NilRecord, err |-> "ErrRecordNotFound"]
       ELSE [rec |-> rows[i].rec, err |-> Nil]

\* table.Iterate that visits the records from the last key to the first.
TableIterate_Descending(e, name) ==
    LET rows == e.tables[name].rows
    IN IF ~e.tables[name].exists
       THEN [rows |-> <<>>, err |-> "ErrTableNotFound"]
       ELSE [rows |-> [i \in 1..Len(rows) |-> rows[Len(rows) + 1 - i]],
             err |-> Nil]

\* table.Iterate(fn) with fn returning true: the records visited, in order.
TableIterate(e, name) ==
    IF ~e.tables[name].exists
    THEN [rows |-> <<>>, err |-> "ErrTableNotFound"]
    ELSE [rows |-> e.tables[name].rows, err |-> Nil]

\* rows without the row rowid.
RemoveRow(rows, rowid) == SelectSeq(rows, LAMBDA x : x.rowid # rowid)

\* rows with row put at its place in ascending rowid order.
AddRow(rows, row) ==
    SelectSeq(rows, LAMBDA x : x.rowid < row.rowid) \o <<row>>
        \o SelectSeq(rows, LAMBDA x : x.rowid > row.rowid)

\* One entry of the undo log applied to the tables.
Undo(tables, u) ==
    CASE u.kind = "create" -> [tables EXCEPT ![u.name] = NoTable]
      [] u.kind = "insert" ->
            [tables EXCEPT ![u.name].rows = RemoveRow(@, u.rowid),
                           ![u.name].lastKey = u.lastKey]
      [] u.kind = "delete" ->
            [tables EXCEPT ![u.name].rows = AddRow(@, u.row)]

RECURSIVE UndoAll_Forward(_, _)
\* The undo log replayed from its first entry to its last.
UndoAll_Forward(tables, undos) ==
    IF undos = <<>>
    THEN tables
    ELSE UndoAll_Forward(Undo(tables, Head(undos)), Tail(undos))

RECURSIVE UndoAll(_, _)
\* The undo log replayed from its last entry to its first.
UndoAll(tables, undos) ==
    IF undos = <<>>
    THEN tables
    ELSE UndoAll(Undo(tables, undos[Len(undos)]), SubSeq(undos, 1, Len(undos) - 1))

\* The tables after Rollback.
RolledBack(tables, undos) == UndoAll(tables, undos)

InitEngine ==
    /\ stream = ZeroStream
    /\ nops = 0
    /\ res = NoRes
    /\ ex = NoEx
    /\ eng = NewEngine
    /\ cat = NoCat
    /\ dot = NoDot
    /\ ps = NoPs

EngineStep(e) ==
    /\ eng' = e
    /\ UNCHANGED <<stream, nops, res, ex, cat, dot, ps>>

\* ng.Begin(writable): one transaction at a time.
Begin ==
    \E writable \in BOOLEAN :
        /\ eng.tx # "open"
        /\ EngineStep([eng EXCEPT !.tx = "open", !.writable = writable,
                                  !.undos = <<>>, !.pre = eng.tables,
                                  !.created = {}, !.inserted = {},
                                  !.log = <<>>, !.deleted = {},
                                  !.rolled = FALSE,
                                  !.op = "Begin", !.err = Nil])

\* tx.CreateTable(name)
CreateTable ==
    \E name \in TableNames :
        /\ eng.tx = "open"
        /\ eng.steps < MaxSteps
        /\ IF ~eng.writable
           THEN EngineStep([eng EXCEPT !.err = "ErrReadOnly", !.steps = @ + 1,
                                       !.op = "CreateTable"])
           ELSE IF eng.tables[name].exists
           THEN EngineStep([eng EXCEPT !.err = "ErrTableAlreadyExists",
                                       !.steps = @ + 1, !.op = "CreateTable"])
           ELSE EngineStep([eng EXCEPT
                    !.tables[name] = [NoTable EXCEPT !.exists = TRUE],
                    !.undos = Append(@, [kind |-> "create", name |-> name]),
                    !.created = @ \cup {name},
                    !.op = "CreateTable", !.err = Nil, !.steps = @ + 1])

\* table.Insert(rec): the key is the table's counter plus one.
Insert ==
    \E name \in TableNames, rec \in Records :
        /\ eng.tx = "open"
        /\ eng.steps < MaxSteps
        /\ eng.tables[name].exists
        /\ IF ~eng.writable
           THEN EngineStep([eng EXCEPT !.err = "ErrReadOnly", !.steps = @ + 1,
                                       !.op = "Insert"])
           ELSE LET t == eng.tables[name]
                    rowid == t.lastKey + 1
                IN EngineStep([eng EXCEPT
                       !.tables[name].rows = Append(@, [rowid |-> rowid, rec |-> rec]),
                       !.tables[name].lastKey = rowid,
                       !.undos = Append(@, [kind |-> "insert", name |-> name,
                                            rowid |-> rowid, lastKey |-> t.lastKey]),
                       !.inserted = @ \cup {<<name, rowid>>},
                       !.log = Append(@, [name |-> name, rowid |-> rowid,
                                          rec |-> rec]),
                       !.op = "Insert", !.err = Nil, !.steps = @ + 1])

\* table.Delete(rowid)
Delete ==
    \E name \in TableNames :
        /\ eng.tx = "open"
        /\ eng.steps < MaxSteps
        /\ eng.tables[name].exists
        /\ \E rowid \in 1..(eng.tables[name].lastKey + 1) :
               LET rows == eng.tables[name].rows
                   i == RowIndex(rows, rowid)
               IN IF ~eng.writable
                  THEN EngineStep([eng EXCEPT !.err = "ErrReadOnly",
                                              !.steps = @ + 1, !.op = "Delete"])
                  ELSE IF i = 0
                  THEN EngineStep([eng EXCEPT !.err = "ErrRecordNotFound",
                                              !.steps = @ + 1, !.op = "Delete"])
                  ELSE EngineStep([eng EXCEPT
                           !.tables[name].rows = RemoveRow(@, rowid),
                           !.undos = Append(@, [kind |-> "delete", name |-> name,
                                                row |-> rows[i]]),
                           !.inserted = @ \ {<<name, rowid>>},
                           !.deleted = @ \cup {name},
                           !.op = "Delete", !.err = Nil, !.steps = @ + 1])

\* tx.Rollback()
Rollback ==
    /\ eng.tx = "open"
    /\ EngineStep([eng EXCEPT !.tables = RolledBack(eng.tables, eng.undos),
                              !.undos = <<>>, !.tx = "rolledback",
                              !.rolled = TRUE, !.op = "Rollback", !.err = Nil])

\* tx.Commit() that does not look at whether the transaction is finished.
CommitTx_Unchecked(e) ==
    [e EXCEPT !.undos = <<>>, !.tx = "committed", !.op = "Commit", !.err = Nil]

\* tx.Commit(): an error on a transaction already committed or rolled back.
CommitTx(e) ==
    IF e.tx # "open"
    THEN [e EXCEPT !.op = "Commit", !.err = "ErrTransactionTerminated"]
    ELSE [e EXCEPT !.undos = <<>>, !.tx = "committed", !.op = "Commit",
                   !.err = Nil]

\* tx.Commit()
Commit ==
    /\ eng.tx \in {"open", "committed", "rolledback"}
    /\ EngineStep(CommitTx(eng))

NextEngine ==
    \/ Begin
    \/ CreateTable
    \/ Insert
    \/ Delete
    \/ Rollback
    \/ Commit

SpecEngine == InitEngine /\ [][NextEngine]_vars

----------------------------------------------------------------------------
(* The catalog: tableConfigStore and indexStore over an engine.Store.      *)
(* A store maps each key to an encoded document or to nothing; fault names *)
(* the engine call that fails in the operation at hand ("get", "put",      *)
(* "delete") or is nil.                                                    *)

ErrKeyNotFound == "ErrKeyNotFound"
ErrTableAlreadyExists == "ErrTableAlreadyExists"
ErrTableNotFound == "ErrTableNotFound"
ErrIndexAlreadyExists == "ErrIndexAlreadyExists"
ErrIndexNotFound == "ErrIndexNotFound"
\* An error of the storage engine other than ErrKeyNotFound.
ErrEngine == "ErrEngine"

CatalogTables == {"foo", "bar"}
CatalogIndexes == {"idx_a", "idx_b"}

\* buildIndexName(name): the key of an index config.
buildIndexName(name) == "i" \o name

TableKeys == CatalogTables
IndexKeys == {buildIndexName(n) : n \in CatalogIndexes}

NoEntry == [present |-> FALSE, v |-> <<>>]
EmptyStore(keys) == [k \in keys |-> NoEntry]

\* st.Get(key)
StoreGet(st, key, fault) ==
    IF fault = "get" THEN [v |-> <<>>, err |-> ErrEngine]
    ELSE IF ~st[key].present THEN [v |-> <<>>, err |-> ErrKeyNotFound]
    ELSE [v |-> st[key].v, err |-> Nil]

\* st.Put(key, v)
StorePut(st, key, v, fault) ==
    IF fault = "put" THEN [st |-> st, err |-> ErrEngine]
    ELSE [st |-> [st EXCEPT ![key] = [present |-> TRUE, v |-> v]], err |-> Nil]

\* st.Delete(key)
StoreDelete(st, key, fault) ==
    IF fault = "delete" THEN [st |-> st, err |-> ErrEngine]
    ELSE IF ~st[key].present THEN [st |-> st, err |-> ErrKeyNotFound]
    ELSE [st |-> [st EXCEPT ![key] = NoEntry], err |-> Nil]

\* One encoded field: name, type tag, payload.
Field(name, type, v) == [name |-> name, type |-> type, v |-> v]

\* document.NewUint8Value(uint8(x))
NewUint8Value(x) == [type |-> "uint8", v |-> x % 256]
\* document.NewInt64Value(x)
NewInt64Value(x) == [type |-> "int64", v |-> x]
\* document.NewStringValue(x)
NewStringValue(x) == [type |-> "string", v |-> x]

\* fb.Add(name, value) followed by encoding.EncodeDocument(&fb): the fields
\* in the order they were added.
EncodeDocument(fb) == fb

\* encoding.EncodedDocument(v).GetByField(name)
GetByField(v, name) ==
    IF \E i \in DOMAIN v : v[i].name = name
    THEN [f |-> v[CHOOSE i \in DOMAIN v : v[i].name = name], err |-> Nil]
    ELSE [f |-> Field(name, "null", 0), err |-> "ErrFieldNotFound"]

\* f.ConvertToString / ConvertToUint8 / ConvertToInt64
ConvertTo(f, type) ==
    IF f.type = type THEN [v |-> f.v, err |-> Nil]
    ELSE [v |-> 0, err |-> "ErrConversion"]

TableConfig(name, type, lastKey) ==
    [PrimaryKeyName |-> name, PrimaryKeyType |-> type, lastKey |-> lastKey]
NilConfig == TableConfig("nil", 0, 0)

\* The document Insert and Replace build from cfg.
TableConfigDocument(cfg) ==
    <<Field("PrimaryKeyName", "string", NewStringValue(cfg.PrimaryKeyName).v),
      Field("PrimaryKeyType", "uint8", NewUint8Value(cfg.PrimaryKeyType).v),
      Field("lastKey", "int64", NewInt64Value(cfg.lastKey).v)>>

CatResult(st, err, puts) == [st |-> st, err |-> err, puts |-> puts]

\* tableConfigStore.Insert that overwrites an existing entry.
TableConfigInsert_Overwrite(st, tableName, cfg, fault) ==
    LET p == StorePut(st, tableName, EncodeDocument(TableConfigDocument(cfg)), fault)
    IN CatResult(p.st, p.err, 1)

\* tableConfigStore.Insert
TableConfigInsert(st, tableName, cfg, fault) ==
    LET key == tableName
        g == StoreGet(st, key, fault)
    IN IF g.err = Nil THEN CatResult(st, ErrTableAlreadyExists, 0)
       ELSE IF g.err # ErrKeyNotFound THEN CatResult(st, g.err, 0)
       ELSE LET p == StorePut(st, key, EncodeDocument(TableConfigDocument(cfg)),
                              fault)
            IN CatResult(p.st, p.err, 1)

\* tableConfigStore.Replace that stores the config of a missing table.
TableConfigReplace_Upsert(st, tableName, cfg, fault) ==
    LET g == StoreGet(st, tableName, fault)
    IN IF g.err # Nil /\ g.err # ErrKeyNotFound THEN CatResult(st, g.err, 0)
       ELSE LET p == StorePut(st, tableName,
                              EncodeDocument(TableConfigDocument(cfg)), fault)
            IN CatResult(p.st, p.err, 1)

\* tableConfigStore.Replace
TableConfigReplace(st, tableName, cfg, fault) ==
    LET key == tableName
        g == StoreGet(st, key, fault)
    IN IF g.err = ErrKeyNotFound THEN CatResult(st, ErrTableNotFound, 0)
       ELSE IF g.err # Nil THEN CatResult(st, g.err, 0)
       ELSE LET p == StorePut(st, key, EncodeDocument(TableConfigDocument(cfg)),
                              fault)
            IN CatResult(p.st, p.err, 1)

\* tableConfigStore.Get that reads lastKey from the PrimaryKeyType field.
TableConfigGet_WrongField(st, tableName, fault) ==
    LET g == StoreGet(st, tableName, fault)
    IN IF g.err = ErrKeyNotFound THEN [cfg |-> NilConfig, err |-> ErrTableNotFound]
       ELSE IF g.err # Nil THEN [cfg |-> NilConfig, err |-> g.err]
       ELSE [cfg |-> TableConfig(GetByField(g.v, "PrimaryKeyName").f.v,
                                 GetByField(g.v, "PrimaryKeyType").f.v,
                                 GetByField(g.v, "PrimaryKeyType").f.v),
             err |-> Nil]

\* tableConfigStore.Get
TableConfigGet(st, tableName, fault) ==
    LET key == tableName
        g == StoreGet(st, key, fault)
    IN IF g.err = ErrKeyNotFound THEN [cfg |-> NilConfig, err |-> ErrTableNotFound]
       ELSE IF g.err # Nil THEN [cfg |-> NilConfig, err |-> g.err]
       ELSE LET f1 == GetByField(g.v, "PrimaryKeyName")
                c1 == ConvertTo(f1.f, "string")
                f2 == GetByField(g.v, "PrimaryKeyType")
                c2 == ConvertTo(f2.f, "uint8")
                f3 == GetByField(g.v, "lastKey")
                c3 == ConvertTo(f3.f, "int64")
            IN IF f1.err # Nil THEN [cfg |-> NilConfig, err |-> f1.err]
               ELSE IF c1.err # Nil THEN [cfg |-> NilConfig, err |-> c1.err]
               ELSE IF f2.err # Nil THEN [cfg |-> NilConfig, err |-> f2.err]
               ELSE IF c2.err # Nil THEN [cfg |-> NilConfig, err |-> c2.err]
               ELSE IF f3.err # Nil THEN [cfg |-> NilConfig, err |-> f3.err]
               ELSE IF c3.err # Nil THEN [cfg |-> NilConfig, err |-> c3.err]
               ELSE [cfg |-> TableConfig(c1.v, c2.v, c3.v), err |-> Nil]

\* tableConfigStore.Delete that reports every error as a missing table.
TableConfigDelete_Masked(st, tableName, fault) ==
    LET d == StoreDelete(st, tableName, fault)
    IN IF d.err # Nil THEN CatResult(st, ErrTableNotFound, 0)
       ELSE CatResult(d.st, d.err, 0)

\* tableConfigStore.Delete
TableConfigDelete(st, tableName, fault) ==
    LET d == StoreDelete(st, tableName, fault)
    IN IF d.err = ErrKeyNotFound THEN CatResult(st, ErrTableNotFound, 0)
       ELSE CatResult(d.st, d.err, 0)

indexOptions(indexName, tableName, fieldName, unique) ==
    [IndexName |-> indexName, TableName |-> tableName, FieldName |-> fieldName,
     Unique |-> unique]
NilOptions == indexOptions("nil", "nil", "nil", 0)

\* The fields of an indexOptions document.
IndexOptionsDocument(cfg) ==
    <<Field("IndexName", "string", cfg.IndexName),
      Field("TableName", "string", cfg.TableName),
      Field("FieldName", "string", cfg.FieldName),
      Field("Unique", "bool", cfg.Unique)>>

\* idxopts.ScanDocument(d)
ScanDocument(v) ==
    LET f1 == GetByField(v, "IndexName")
        f2 == GetByField(v, "TableName")
        f3 == GetByField(v, "FieldName")
        f4 == GetByField(v, "Unique")
    IN IF \E f \in {f1, f2, f3, f4} : f.err # Nil
       THEN [opts |-> NilOptions, err |-> "ErrFieldNotFound"]
       ELSE [opts |-> indexOptions(f1.f.v, f2.f.v, f3.f.v, f4.f.v), err |-> Nil]

\* indexStore.Insert
IndexInsert(st, cfg, fault) ==
    LET key == buildIndexName(cfg.IndexName)
        g == StoreGet(st, key, fault)
    IN IF g.err = Nil THEN CatResult(st, ErrIndexAlreadyExists, 0)
       ELSE IF g.err # ErrKeyNotFound THEN CatResult(st, g.err, 0)
       ELSE LET p == StorePut(st, key, EncodeDocument(IndexOptionsDocument(cfg)),
                              fault)
            IN CatResult(p.st, p.err, 1)

\* indexStore.Get
IndexGet(st, indexName, fault) ==
    LET key == buildIndexName(indexName)
        g == StoreGet(st, key, fault)
    IN IF g.err = ErrKeyNotFound THEN [opts |-> NilOptions, err |-> ErrIndexNotFound]
       ELSE IF g.err # Nil THEN [opts |-> NilOptions, err |-> g.err]
       ELSE ScanDocument(g.v)

\* indexStore.Delete
IndexDelete(st, indexName, fault) ==
    LET key == buildIndexName(indexName)
        d == StoreDelete(st, key, fault)
    IN IF d.err = ErrKeyNotFound THEN CatResult(st, ErrIndexNotFound, 0)
       ELSE CatResult(d.st, d.err, 0)

Faults == {Nil, "get", "put", "delete"}
TableConfigs ==
    {TableConfig("", 0, 0), TableConfig("", 0, 1), TableConfig("id", 255, 0),
     TableConfig("id", 7, -1)}
IndexOptions ==
    {indexOptions(n, t, "a", u) : n \in CatalogIndexes, t \in {"foo"}, u \in {0, 1}}

\* No entry in either store, no call made.  before holds the two stores as
\* they were when the last call began; tmap holds, for each table name, the
\* config of the last Insert or Replace that returned nil, unless a Delete
\* returned nil since.
NoConfig == [present |-> FALSE, cfg |-> NilConfig]
NewCatalog ==
    [tables |-> EmptyStore(TableKeys), indexes |-> EmptyStore(IndexKeys),
     op |-> "none", name |-> "nil", fault |-> Nil, err |-> Nil, puts |-> 0,
     cfg |-> NilConfig, opts |-> NilOptions,
     before |-> [tables |-> EmptyStore(TableKeys),
                 indexes |-> EmptyStore(IndexKeys)],
     tmap |-> [n \in CatalogTables |-> NoConfig]]

InitCatalog ==
    /\ stream = ZeroStream
    /\ nops = 0
    /\ res = NoRes
    /\ ex = NoEx
    /\ eng = NoEng
    /\ cat = NewCatalog
    /\ dot = NoDot
    /\ ps = NoPs

\* The catalog after a call: op, its argument name and fault, what it
\* returned, and the stores it left.
CatalogStep(op, name, fault, tables, indexes, err, puts, cfg, opts, tmap) ==
    /\ cat' = [tables |-> tables, indexes |-> indexes, op |-> op, name |-> name,
               fault |-> fault, err |-> err, puts |-> puts, cfg |-> cfg,
               opts |-> opts,
               before |-> [tables |-> cat.tables, indexes |-> cat.indexes],
               tmap |-> tmap]
    /\ UNCHANGED <<stream, nops, res, ex, eng, dot, ps>>

DoTableInsert ==
    \E name \in CatalogTables, cfg \in TableConfigs, fault \in Faults :
        LET r == TableConfigInsert(cat.tables, name, cfg, fault)
        IN CatalogStep("TableInsert", name, fault, r.st, cat.indexes, r.err,
                       r.puts, NilConfig, NilOptions,
                       IF r.err = Nil
                       THEN [cat.tmap EXCEPT ![name] = [present |-> TRUE, cfg |-> cfg]]
                       ELSE cat.tmap)

DoTableReplace ==
    \E name \in CatalogTables, cfg \in TableConfigs, fault \in Faults :
        LET r == TableConfigReplace(cat.tables, name, cfg, fault)
        IN CatalogStep("TableReplace", name, fault, r.st, cat.indexes, r.err,
                       r.puts, NilConfig, NilOptions,
                       IF r.err = Nil
                       THEN [cat.tmap EXCEPT ![name] = [present |-> TRUE, cfg |-> cfg]]
                       ELSE cat.tmap)

DoTableGet ==
    \E name \in CatalogTables, fault \in Faults :
        LET r == TableConfigGet(cat.tables, name, fault)
        IN CatalogStep("TableGet", name, fault, cat.tables, cat.indexes, r.err,
                       0, r.cfg, NilOptions, cat.tmap)

DoTableDelete ==
    \E name \in CatalogTables, fault \in Faults :
        LET r == TableConfigDelete(cat.tables, name, fault)
        IN CatalogStep("TableDelete", name, fault, r.st, cat.indexes, r.err,
                       r.puts, NilConfig, NilOptions,
                       IF r.err = Nil
                       THEN [cat.tmap EXCEPT ![name] = NoConfig]
                       ELSE cat.tmap)

DoIndexInsert ==
    \E cfg \in IndexOptions, fault \in Faults :
        LET r == IndexInsert(cat.indexes, cfg, fault)
        IN CatalogStep("IndexInsert", cfg.IndexName, fault, cat.tables, r.st,
                       r.err, r.puts, NilConfig, NilOptions, cat.tmap)

DoIndexGet ==
    \E name \in CatalogIndexes, fault \in Faults :
        LET r == IndexGet(cat.indexes, name, fault)
        IN CatalogStep("IndexGet", name, fault, cat.tables, cat.indexes, r.err,
                       0, NilConfig, r.opts, cat.tmap)

DoIndexDelete ==
    \E name \in CatalogIndexes, fault \in Faults :
        LET r == IndexDelete(cat.indexes, name, fault)
        IN CatalogStep("IndexDelete", name, fault, cat.tables, r.st, r.err,
                       r.puts, NilConfig, NilOptions, cat.tmap)

NextCatalog ==
    \/ DoTableInsert
    \/ DoTableReplace
    \/ DoTableGet
    \/ DoTableDelete
    \/ DoIndexInsert
    \/ DoIndexGet
    \/ DoIndexDelete

SpecCatalog == InitCatalog /\ [][NextCatalog]_vars

----------------------------------------------------------------------------
(* Dot paths: a sequence of selectors evaluated against the document of   *)
(* the evaluation stack.                                                   *)

MaxPath == 3

NewIntValue(x) == Value("int", x)
NewTextValue(x) == Value("text", x)
\* A document value holds its fields in order; an array value its elements.
DocField(name, v) == [name |-> name, value |-> v]
NewDocumentValue(fields) == Value("document", fields)
NewArrayValue(elems) == Value("array", elems)

FieldSel(name) == [kind |-> "field", name |-> name]
IndexSel(i) == [kind |-> "index", i |-> i]

\* The document of the test: {"a": 1, "b": {"foo bar": [1, 2]},
\* "c": [1, {"foo": "bar"}, [1, 2]]}.
TestDocument ==
    NewDocumentValue(<<
        DocField("a", NewIntValue(1)),
        DocField("b", NewDocumentValue(<<
            DocField("foo bar", NewArrayValue(<<NewIntValue(1), NewIntValue(2)>>))>>)),
        DocField("c", NewArrayValue(<<
            NewIntValue(1),
            NewDocumentValue(<<DocField("foo", NewTextValue("bar"))>>),
            NewArrayValue(<<NewIntValue(1), NewIntValue(2)>>)>>))>>)

\* EvalStack{Document: d} and EvalStack{}.
EvalStack(d) == [hasDocument |-> TRUE, Document |-> d]
EmptyStack == [hasDocument |-> FALSE, Document |-> nullLitteral]

HasField(d, name) == \E i \in DOMAIN d.v : d.v[i].name = name
\* d.GetByField(name), for a field d has.
FieldOf(d, name) == d.v[CHOOSE i \in DOMAIN d.v : d.v[i].name = name].value

DotResult(v, err) == [v |-> v, err |-> err]

\* One selector that reports a missing field as an error.
Select_MissingIsError(cur, sel) ==
    IF cur.err # Nil THEN cur
    ELSE IF cur.v.type = "document" /\ sel.kind = "field"
    THEN IF HasField(cur.v, sel.name)
         THEN DotResult(FieldOf(cur.v, sel.name), Nil)
         ELSE DotResult(nullLitteral, "ErrFieldNotFound")
    ELSE IF cur.v.type = "array" /\ sel.kind = "index"
    THEN IF sel.i < Len(cur.v.v)
         THEN DotResult(cur.v.v[sel.i + 1], Nil)
         ELSE DotResult(nullLitteral, Nil)
    ELSE DotResult(nullLitteral, Nil)

\* One selector applied to the value reached so far: a field of a document,
\* an element of an array (indexes start at 0), Null for everything else.
Select(cur, sel) ==
    IF cur.err # Nil THEN cur
    ELSE IF cur.v.type = "document" /\ sel.kind = "field"
    THEN IF HasField(cur.v, sel.name)
         THEN DotResult(FieldOf(cur.v, sel.name), Nil)
         ELSE DotResult(nullLitteral, Nil)
    ELSE IF cur.v.type = "array" /\ sel.kind = "index"
    THEN IF sel.i < Len(cur.v.v)
         THEN DotResult(cur.v.v[sel.i + 1], Nil)
         ELSE DotResult(nullLitteral, Nil)
    ELSE DotResult(nullLitteral, Nil)

RECURSIVE Walk(_, _)
Walk(cur, path) ==
    IF path = <<>> THEN cur ELSE Walk(Select(cur, Head(path)), Tail(path))

\* Eval of a dot path: an error without a document on the stack, otherwise
\* the selectors applied from left to right.
DotEval(stack, path) ==
    IF ~stack.hasDocument THEN DotResult(nullLitteral, "ErrNoDocument")
    ELSE Walk(DotResult(stack.Document, Nil), path)

Selectors ==
    {FieldSel(n) : n \in {"a", "b", "c", "d", "foo bar", "foo"}}
        \cup {IndexSel(i) : i \in 0..2}
Paths == UNION {[1..n -> Selectors] : n \in 1..MaxPath}
Stacks == {EvalStack(TestDocument), EmptyStack}

InitDot ==
    /\ stream = ZeroStream
    /\ nops = 0
    /\ res = NoRes
    /\ ex = NoEx
    /\ eng = NoEng
    /\ cat = NoCat
    /\ dot = NoDot
    /\ ps = NoPs

EvalDot(stack, path) ==
    /\ dot.op = "none"
    /\ LET r == DotEval(stack, path)
       IN dot' = [op |-> "Eval", stack |-> stack, path |-> path, v |-> r.v,
                  err |-> r.err]
    /\ UNCHANGED <<stream, nops, res, ex, eng, cat, ps>>

NextDot == \E stack \in Stacks, path \in Paths : EvalDot(stack, path)

SpecDot == InitDot /\ [][NextDot]_vars

----------------------------------------------------------------------------
(* The parser of the SET clause of UPDATE.  A parser p holds the tokens of *)
(* its input without whitespace and the number of tokens scanned.          *)

MaxTok == 4
MaxPairs == 3

\* A token: its kind and its literal.
Token(tok, lit) == [tok |-> tok, lit |-> lit]
SET == Token("SET", "SET")
WHERE == Token("WHERE", "WHERE")
EQ == Token("EQ", "=")
COMMA == Token("COMMA", ",")
EOF == Token("EOF", "")
IDENT(lit) == Token("IDENT", lit)
NUMBER(lit) == Token("NUMBER", lit)

NewParser(toks) == [toks |-> toks, pos |-> 0]

\* p.ScanIgnoreWhitespace(): the next token, its position, and the parser
\* after it.
ScanIgnoreWhitespace(p) ==
    [tok |-> IF p.pos < Len(p.toks) THEN p.toks[p.pos + 1] ELSE EOF,
     pos |-> p.pos + 1,
     p |-> [p EXCEPT !.pos = @ + 1]]

\* p.Unscan(): the token just scanned is read again by the next scan.
Unscan(p) == [p EXCEPT !.pos = @ - 1]

NoError == [kind |-> Nil, found |-> "", expected |-> "", pos |-> 0]
\* newParseError(scanner.Tokstr(tok, lit), []string{expected}, pos)
newParseError(tok, expected, pos) ==
    [kind |-> "ParseError", found |-> tok.lit, expected |-> expected, pos |-> pos]

NoExpr == Token("nil", "")
\* A token an expression can be made of.
IsOperand(tok) == tok.tok \in {"IDENT", "NUMBER"}

\* p.parseExpr(): an expression of one operand.
parseExprOf(s) ==
    IF IsOperand(s.tok)
    THEN [expr |-> s.tok, err |-> NoError, p |-> s.p]
    ELSE [expr |-> NoExpr, err |-> newParseError(s.tok, "expression", s.pos),
          p |-> s.p]
parseExpr(p) == parseExprOf(ScanIgnoreWhitespace(p))

FieldNames == {"a", "b"}
\* make(map[string]expr.Expr)
NoPairs == [f \in FieldNames |-> NoExpr]
\* nil, err
SetFailed(err, p) == [pairs |-> NoPairs, err |-> err, p |-> p]

RECURSIVE SetLoop(_, _, _)

\* pairs[lit] = expr, unless parseExpr failed; then the next turn of the loop.
SetExpr(lit, e, pairs) ==
    IF e.err # NoError THEN SetFailed(e.err, e.p)
    ELSE SetLoop(e.p, [pairs EXCEPT ![lit] = e.expr], FALSE)

\* Scan the eq sign, s being the scan after the identifier lit.
SetEq(lit, s, pairs) ==
    IF s.tok.tok # "EQ" THEN SetFailed(newParseError(s.tok, "=", s.pos), s.p)
    ELSE SetExpr(lit, parseExpr(s.p), pairs)

\* Scan the identifier for the field name, s being the scan that read it.
SetIdent(s, pairs) ==
    IF s.tok.tok # "IDENT"
    THEN SetFailed(newParseError(s.tok, "identifier", s.pos), s.p)
    ELSE SetEq(s.tok.lit, ScanIgnoreWhitespace(s.p), pairs)

\* The scan for a comma that does not put back the token it read.
SetComma_NoUnscan(s, pairs) ==
    IF s.tok.tok # "COMMA"
    THEN [pairs |-> pairs, err |-> NoError, p |-> s.p]
    ELSE SetIdent(ScanIgnoreWhitespace(s.p), pairs)

\* Scan for a comma, s being the scan that looked for it.
SetComma(s, pairs) ==
    IF s.tok.tok # "COMMA"
    THEN [pairs |-> pairs, err |-> NoError, p |-> Unscan(s.p)]
    ELSE SetIdent(ScanIgnoreWhitespace(s.p), pairs)

\* One turn of the loop of parseSetClause.
SetLoop(p, pairs, firstPair) ==
    IF ~firstPair THEN SetComma(ScanIgnoreWhitespace(p), pairs)
    ELSE SetIdent(ScanIgnoreWhitespace(p), pairs)

\* Check if the SET token exists, s being the first scan.
SetClauseOf(s) ==
    IF s.tok.tok # "SET" THEN SetFailed(newParseError(s.tok, "SET", s.pos), s.p)
    ELSE SetLoop(s.p, NoPairs, TRUE)

\* p.parseSetClause()
parseSetClause(p) == SetClauseOf(ScanIgnoreWhitespace(p))

\* p.parseCondition(): WHERE and an expression, or nothing; first is the
\* token its first scan read.
ConditionOf(s) ==
    IF s.tok.tok # "WHERE"
    THEN [first |-> s.tok, expr |-> NoExpr, err |-> NoError, p |-> Unscan(s.p)]
    ELSE [first |-> s.tok] @@ parseExpr(s.p)
parseCondition(p) == ConditionOf(ScanIgnoreWhitespace(p))

Tokens == {SET, WHERE, EQ, COMMA, IDENT("a"), IDENT("b"), NUMBER("1"), NUMBER("2")}
TokenSeqs(n) == UNION {[1..k -> Tokens] : k \in 0..n}

\* field = expr
PairTokens == {<<IDENT(f), EQ, e>> : f \in FieldNames, e \in {NUMBER("1"), NUMBER("2"), IDENT("b")}}
RECURSIVE PairLists(_)
\* n pairs separated by commas.
PairLists(n) ==
    IF n = 1 THEN PairTokens
    ELSE {l \o <<COMMA>> \o q : l \in PairLists(n - 1), q \in PairTokens}

\* Every input of up to MaxTok tokens, and SET with up to MaxPairs pairs
\* followed by up to two tokens of any kind.
Inputs ==
    TokenSeqs(MaxTok)
        \cup {<<SET>> \o l \o t : l \in UNION {PairLists(n) : n \in 1..MaxPairs},
                                  t \in TokenSeqs(2)}

InitParser ==
    /\ stream = ZeroStream
    /\ nops = 0
    /\ res = NoRes
    /\ ex = NoEx
    /\ eng = NoEng
    /\ cat = NoCat
    /\ dot = NoDot
    /\ ps \in {[pc |-> "start", toks |-> toks, pos |-> 0, pairs |-> NoPairs,
                err |-> NoError, first |-> NoExpr] : toks \in Inputs}

\* stmt.Pairs, err = p.parseSetClause()
ParseSet ==
    /\ ps.pc = "start"
    /\ LET r == parseSetClause(NewParser(ps.toks))
       IN ps' = [ps EXCEPT !.pc = IF r.err = NoError THEN "set" ELSE "failed",
                           !.pos = r.p.pos, !.pairs = r.pairs, !.err = r.err]
    /\ UNCHANGED <<stream, nops, res, ex, eng, cat, dot>>

\* stmt.WhereExpr, err = p.parseCondition()
ParseCondition ==
    /\ ps.pc = "set"
    /\ LET r == parseCondition([toks |-> ps.toks, pos |-> ps.pos])
       IN ps' = [ps EXCEPT !.pc = "where", !.first = r.first]
    /\ UNCHANGED <<stream, nops, res, ex, eng, cat, dot>>

NextParser ==
    \/ ParseSet
    \/ ParseCondition

SpecParser == InitParser /\ [][NextParser]_vars

----------------------------------------------------------------------------
(* Shapes of the stream under test *)

\* NewStream(NewIterator(d...)): a stream without operator over documents.
IsPlain(s) == s.kind = "stream" /\ s.op.kind = "nil" /\ s.it.kind = "docs"

\* s was built by Pipe.
IsPiped(s) == s.kind = "stream" /\ s.op.kind # "nil" /\ s.it.kind = "stream"

\* s was returned by Append.
IsAppended(s) == s.kind = "stream" /\ s.it.kind = "multi"

\* The stream Append was called on, and the iterator it was given.
AppendReceiver(s) ==
    IF Len(s.it.iterators) = 2
    THEN s.it.iterators[1]
    ELSE [s EXCEPT !.it.iterators = SubSeq(@, 1, Len(@) - 1)]
AppendArgument(s) == s.it.iterators[Len(s.it.iterators)]

RECURSIVE HasNoOperator(_)
\* No stream inside it carries an operator.
HasNoOperator(it) ==
    CASE it.kind = "docs" -> TRUE
      [] it.kind = "nil" -> TRUE
      [] it.kind = "stream" -> it.op.kind = "nil" /\ HasNoOperator(it.it)
      [] it.kind = "multi" ->
            \A i \in DOMAIN it.iterators : HasNoOperator(it.iterators[i])

RECURSIVE DocumentsOf(_)
RECURSIVE DocumentsOfAll(_)
\* The documents of an iterator without operators, in order.
DocumentsOf(it) ==
    CASE it.kind = "docs" -> it.docs
      [] it.kind = "nil" -> <<>>
      [] it.kind = "stream" -> DocumentsOf(it.it)
      [] it.kind = "multi" -> DocumentsOfAll(it.iterators)
DocumentsOfAll(its) ==
    IF its = <<>> THEN <<>> ELSE DocumentsOf(Head(its)) \o DocumentsOfAll(Tail(its))

\* Documents d[from+1 .. to] of d (0-based d[from] .. d[to-1]).
Slice(d, from, to) ==
    IF to <= from THEN <<>> ELSE [i \in 1..(to - from) |-> d[from + i]]

IsClosedEvent(e) == e.err = ErrStreamClosed
IsLast(i) == i = Len(res.events) /\ res.events[i].calls = Len(res.out)

----------------------------------------------------------------------------
(* Claims about streams *)

\* C1 (as claimed): Stream.Iterate never returns ErrStreamClosed, with or
\* without operators; whenever an operator or fn raises it, the iteration
\* stops there and Iterate returns nil.
C1_NeverSurfacesClosed ==
    res.call = "Iterate" =>
        /\ res.err # ErrStreamClosed
        /\ \A i \in DOMAIN res.events :
               IsClosedEvent(res.events[i]) => res.err = Nil /\ IsLast(i)

\* C2: for NewStream(docs).Pipe(op), when op returns ErrStreamClosed on the
\* k-th document, Iterate returns nil, fn was called exactly with the
\* documents before the k-th and with no later one.
C2_OpClosedStops ==
    (res.call = "Iterate" /\ IsPiped(stream) /\ IsPlain(stream.it)) =>
        \A i \in DOMAIN res.events :
            (res.events[i].src = "op" /\ IsClosedEvent(res.events[i])) =>
                /\ res.err = Nil
                /\ IsLast(i)
                /\ res.out = Slice(stream.it.it.docs, 0, res.events[i].doc - 1)

C2_Witness ==
    /\ res.call = "Iterate"
    /\ IsPiped(stream) /\ IsPlain(stream.it)
    /\ stream.op.kind = "map"
    /\ Len(stream.it.it.docs) = 3
    /\ res.events = <<[src |-> "op", err |-> ErrStreamClosed, doc |-> 2, calls |-> 1]>>
    /\ res.out = <<1>>
    /\ res.err = Nil

\* C3: an error other than ErrStreamClosed returned by an operator or by fn
\* is the error Iterate returns, whatever the nesting of piped streams and
\* appended iterators, and fn is not called after it.
C3_ErrorSurfaces ==
    res.call = "Iterate" =>
        \A i \in DOMAIN res.events :
            ~IsClosedEvent(res.events[i]) =>
                res.err = res.events[i].err /\ IsLast(i)

C3_Witness ==
    /\ res.call = "Iterate"
    /\ IsPiped(stream) /\ IsAppended(stream.it)
    /\ \E i \in DOMAIN res.events :
           res.events[i].src = "op" /\ res.events[i].err = "ErrMap"
    /\ res.err = "ErrMap"
    /\ Len(res.out) > 0

\* C4: for a stream s without operators over the documents d (NewStream
\* of a document iterator, possibly with iterators appended),
\* s.Offset(n).Limit(m) delivers d[n] .. d[min(n+m, len)-1] in order and
\* Iterate returns nil.
C4_OffsetLimit ==
    ( /\ res.call = "Iterate" /\ res.fn = FnNever
      /\ IsPiped(stream) /\ stream.op.kind = "limit"
      /\ IsPiped(stream.it) /\ stream.it.op.kind = "offset"
      /\ HasNoOperator(stream.it.it) ) =>
        LET d == DocumentsOf(stream.it.it)
            n == stream.it.op.n
            m == stream.op.n
        IN /\ res.out = Slice(d, n, Min(n + m, Len(d)))
           /\ res.err = Nil

C4_Witness ==
    /\ res.call = "Iterate" /\ res.fn = FnNever
    /\ IsPiped(stream) /\ stream.op.kind = "limit" /\ stream.op.n = 1
    /\ IsPiped(stream.it) /\ stream.it.op.kind = "offset" /\ stream.it.op.n = 1
    /\ IsPlain(stream.it.it) /\ Len(stream.it.it.it.docs) = 3
    /\ res.out = <<2>>

\* C5 (as claimed): for every stream s, s.Limit(n) delivers the first
\* min(n, |s|) documents of s, Count is at most n, and the error is nil
\* when the limit cut the stream short.
C5_Limit ==
    ( /\ res.call \in {"Iterate", "Count"} /\ res.fn = FnNever
      /\ IsPiped(stream) /\ stream.op.kind = "limit" ) =>
        LET s == Iterate(stream.it, FnNever)
            n == stream.op.n
            k == Min(n, Len(s.out))
        IN /\ res.call = "Iterate" => res.out = Slice(s.out, 0, k)
           /\ res.call = "Count" => res.counter = k /\ res.counter <= n
           /\ Len(s.out) > n => res.err = Nil

\* C6 (as claimed): for every stream s and callback fn, s.Filter(true)
\* calls fn with the same documents as s and returns the same error.
C6_FilterTrue ==
    ( /\ res.call = "Iterate"
      /\ IsPiped(stream) /\ stream.op.kind = "filter"
      /\ stream.op.fn = FilterFn(0, Nil) ) =>
        LET s == Iterate(stream.it, res.fn)
        IN res.out = s.out /\ res.err = s.err

\* C7 (as claimed): for every stream s and iterator other, s.Append(other)
\* delivers the documents s delivers, then the documents of other unchanged.
C7_Append ==
    ( /\ res.call = "Iterate" /\ res.fn = FnNever
      /\ IsAppended(stream) ) =>
        LET s == Iterate(AppendReceiver(stream), FnNever)
        IN s.err = Nil =>
               res.out = s.out \o AppendArgument(stream).docs /\ res.err = Nil

\* C8 (as claimed): for every stream s, First returns the first document
\* Iterate would deliver, with a nil error, and (nil, nil) when s delivers
\* no document.
C8_First ==
    res.call = "First" =>
        LET s == Iterate(stream, FnNever)
        IN /\ s.out # <<>> => res.r = s.out[1] /\ res.err = Nil
           /\ (s.out = <<>> /\ s.err = Nil) => res.r = NilDoc /\ res.err = Nil

----------------------------------------------------------------------------
(* Claims about expressions *)

\* C9: when a evaluates without error to a falsy value, And(a, b) is false
\* with a nil error; when a evaluates without error to a truthy value,
\* Or(a, b) is true with a nil error; in both cases b is not evaluated.
C9_ShortCircuit ==
    ex.op \in {"and", "or"} =>
        LET a == Eval(ex.a)
        IN /\ (ex.op = "and" /\ a.err = Nil /\ ~IsTruthy(a.v)) =>
                  ex.v = falseLitteral /\ ex.err = Nil /\ ex.trace = a.trace
           /\ (ex.op = "or" /\ a.err = Nil /\ IsTruthy(a.v)) =>
                  ex.v = trueLitteral /\ ex.err = Nil /\ ex.trace = a.trace

C9_Witness ==
    /\ ex.op = "and"
    /\ ex.a = Leaf(Value("int", 0), Nil)
    /\ ex.b = Leaf(nullLitteral, "ErrEval")
    /\ ex.v = falseLitteral
    /\ ex.err = Nil
    /\ ex.trace = <<ex.a>>

\* C20: And.Eval and Or.Eval return a non-nil error exactly when an operand
\* they evaluated returned one; the error is that operand's and the value
\* is false; in every other case the value is the boolean true or the
\* boolean false, never Null.
C20_ErrorsAndBooleans ==
    ex.op \in {"and", "or"} =>
        LET a == Eval(ex.a)
            b == Eval(ex.b)
            bEvaluated == ex.trace # a.trace
        IN /\ ex.err # Nil <=> (a.err # Nil \/ (bEvaluated /\ b.err # Nil))
           /\ a.err # Nil => ex.err = a.err /\ ~bEvaluated
           /\ (a.err = Nil /\ bEvaluated) =>
                  ex.err = b.err /\ ex.trace = a.trace \o b.trace
           /\ ex.err # Nil => ex.v = falseLitteral
           /\ ex.v \in {trueLitteral, falseLitteral}

C20_Witness ==
    /\ ex.op = "or"
    /\ ex.a = Leaf(nullLitteral, Nil)
    /\ ex.b = Leaf(nullLitteral, "ErrOther")
    /\ ex.v = falseLitteral
    /\ ex.err = "ErrOther"
    /\ ex.trace = <<ex.a, ex.b>>

----------------------------------------------------------------------------
(* Claims about the memory engine *)

\* C10: after a write transaction is rolled back, Record(rowid) returns an
\* error and a nil record for every record it inserted, Table(name) returns
\* an error for every table it created, and the tables are what they were
\* when the transaction began.
C10_RollbackUndoes ==
    (eng.tx = "rolledback" /\ eng.writable) =>
        /\ \A p \in eng.inserted :
               LET r == Record(eng, p[1], p[2])
               IN r.err # Nil /\ r.rec = NilRecord
        /\ \A name \in eng.created : Table(eng, name).err # Nil
        /\ eng.tables = eng.pre

C10_Witness ==
    /\ eng.tx = "rolledback" /\ eng.writable
    /\ eng.created = {"other"}
    /\ <<"test", 2>> \in eng.inserted
    /\ <<"other", 1>> \in eng.inserted
    /\ eng.pre["test"].rows = <<[rowid |-> 1, rec |-> "john"]>>
    /\ eng.tables = eng.pre

\* C11: after Rollback has returned on a transaction, Commit on the same
\* transaction returns an error and publishes none of its writes.
C11_CommitAfterRollback ==
    (eng.op = "Commit" /\ eng.rolled) =>
        /\ eng.err # Nil
        /\ eng.tx = "rolledback"
        /\ eng.tables = eng.pre

C11_Witness ==
    /\ eng.op = "Commit" /\ eng.rolled /\ eng.writable
    /\ Len(eng.log) > 0
    /\ "test" \in eng.created
    /\ eng.err # Nil

\* The inserts of the open transaction into table name, in call order.
InsertedInto(name) ==
    LET l == SelectSeq(eng.log, LAMBDA x : x.name = name)
    IN [i \in 1..Len(l) |-> [rowid |-> l[i].rowid, rec |-> l[i].rec]]

\* C12: in a write transaction that only inserted into a table, Iterate
\* visits the records the table held before followed by the inserted ones,
\* each once, in insertion order with ascending keys, and visits the same
\* sequence before Commit and after it.
C12_IterateInsertionOrder ==
    (eng.writable /\ eng.tx \in {"open", "committed"}) =>
        \A name \in TableNames :
            (eng.tables[name].exists /\ name \notin eng.deleted) =>
                LET it == TableIterate(eng, name)
                IN /\ it.err = Nil
                   /\ it.rows = eng.pre[name].rows \o InsertedInto(name)
                   /\ \A i, j \in DOMAIN it.rows :
                          i < j => it.rows[i].rowid < it.rows[j].rowid

C12_Witness ==
    /\ eng.writable /\ eng.tx = "committed"
    /\ eng.created = {"test"} /\ eng.deleted = {}
    /\ TableIterate(eng, "test").rows =
           <<[rowid |-> 1, rec |-> "john"], [rowid |-> 2, rec |-> "jane"],
             [rowid |-> 3, rec |-> "john"]>>

\* C16: a stream is reusable: Iterate with the same callback, or Count,
\* called a second time on the same Stream returns what the first call
\* returned and delivers the same documents, because every Iterate makes
\* its operators' closures anew.
C16_Reusable ==
    res.again =>
        /\ res.err2 = res.err
        /\ res.call = "Iterate" => res.out2 = res.out
        /\ res.call = "Count" => res.counter2 = res.counter

C16_Witness ==
    /\ res.again /\ res.call = "Iterate" /\ res.fn = FnNever
    /\ IsPiped(stream) /\ stream.op.kind = "limit" /\ stream.op.n = 2
    /\ IsPiped(stream.it) /\ stream.it.op.kind = "offset" /\ stream.it.op.n = 1
    /\ IsPlain(stream.it.it)
    /\ res.out = <<2, 3>> /\ res.out2 = <<2, 3>>
    /\ res.left = <<2, 1>>

\* C17: within one Iterate, once the callback has returned ErrStreamClosed
\* it is not invoked again, whatever the shape of the stream.
C17_NoCallAfterClosed ==
    res.call = "Iterate" =>
        \A i \in DOMAIN res.events :
            (res.events[i].src = "fn" /\ IsClosedEvent(res.events[i])) =>
                res.events[i].calls = Len(res.out)

\* The documents of d the filter function p lets through.
Satisfying(d, p) == SelectSeq(d, LAMBDA r : r # p.on)

\* C18: operators apply in the order they were piped: for a stream s
\* without operators and a filter function p that returns no error,
\* s.Filter(p).Limit(n) delivers the first n documents of s that satisfy p
\* and s.Filter(p).Offset(n) skips the first n documents that satisfy p.
C18_PipedOrder ==
    ( /\ res.call = "Iterate" /\ res.fn = FnNever
      /\ IsPiped(stream) /\ stream.op.kind \in {"limit", "offset"}
      /\ IsPiped(stream.it) /\ stream.it.op.kind = "filter"
      /\ stream.it.op.fn.out \in {"false", Nil}
      /\ HasNoOperator(stream.it.it) ) =>
        LET sat == Satisfying(DocumentsOf(stream.it.it), stream.it.op.fn)
            n == stream.op.n
        IN /\ res.err = Nil
           /\ stream.op.kind = "limit" => res.out = Slice(sat, 0, Min(n, Len(sat)))
           /\ stream.op.kind = "offset" => res.out = Slice(sat, n, Len(sat))

C18_Witness ==
    /\ res.call = "Iterate" /\ res.fn = FnNever
    /\ IsPiped(stream) /\ stream.op.kind = "limit" /\ stream.op.n = 2
    /\ IsPiped(stream.it) /\ stream.it.op = [kind |-> "filter", fn |-> FilterFn(2, "false")]
    /\ IsPlain(stream.it.it) /\ stream.it.it.it.docs = <<1, 2, 3>>
    /\ res.out = <<1, 3>>

----------------------------------------------------------------------------
(* Claims about the catalog *)

\* The entry the last call named was present when the call began.
WasPresent ==
    IF cat.op \in {"TableInsert", "TableReplace", "TableGet", "TableDelete"}
    THEN cat.before.tables[cat.name].present
    ELSE cat.before.indexes[buildIndexName(cat.name)].present

StoresUnchanged ==
    cat.tables = cat.before.tables /\ cat.indexes = cat.before.indexes

\* C13: with a working engine, tableConfigStore.Insert returns
\* ErrTableAlreadyExists and indexStore.Insert returns ErrIndexAlreadyExists
\* whenever an entry for the name exists; no Put is issued and the stored
\* entry is unchanged.
C13_InsertRejectsExisting ==
    (cat.op \in {"TableInsert", "IndexInsert"} /\ cat.fault = Nil /\ WasPresent) =>
        /\ cat.op = "TableInsert" => cat.err = ErrTableAlreadyExists
        /\ cat.op = "IndexInsert" => cat.err = ErrIndexAlreadyExists
        /\ cat.puts = 0
        /\ StoresUnchanged

C13_Witness ==
    /\ cat.op = "TableInsert" /\ cat.fault = Nil /\ WasPresent
    /\ cat.err = ErrTableAlreadyExists
    /\ cat.tmap[cat.name].present
    /\ cat.tmap[cat.name].cfg = TableConfig("id", 255, 0)

\* C14: with a working engine, Replace, Get and Delete of the table store
\* return ErrTableNotFound and Get and Delete of the index store return
\* ErrIndexNotFound whenever no entry exists for the name, and change
\* nothing; after a Delete that returned nil the entry is absent.
C14_AbsentIsNotFound ==
    /\ ( /\ cat.op \in {"TableReplace", "TableGet", "TableDelete", "IndexGet",
                        "IndexDelete"}
         /\ cat.fault = Nil /\ ~WasPresent ) =>
           /\ cat.op \in {"TableReplace", "TableGet", "TableDelete"} =>
                  cat.err = ErrTableNotFound
           /\ cat.op \in {"IndexGet", "IndexDelete"} => cat.err = ErrIndexNotFound
           /\ cat.puts = 0
           /\ StoresUnchanged
    /\ (cat.op = "TableDelete" /\ cat.err = Nil) => ~cat.tables[cat.name].present
    /\ (cat.op = "IndexDelete" /\ cat.err = Nil) =>
           ~cat.indexes[buildIndexName(cat.name)].present

C14_Witness ==
    /\ cat.op = "TableReplace" /\ cat.fault = Nil /\ ~WasPresent
    /\ cat.err = ErrTableNotFound
    /\ \E n \in CatalogTables : cat.tables[n].present

\* C19: Get(name) returns ErrTableNotFound if the name was never inserted or
\* was deleted since its last successful Insert, and otherwise the config
\* of the most recent successful Insert or Replace for that name.
C19_CatalogIsMap ==
    (cat.op = "TableGet" /\ cat.fault = Nil) =>
        IF cat.tmap[cat.name].present
        THEN cat.err = Nil /\ cat.cfg = cat.tmap[cat.name].cfg
        ELSE cat.err = ErrTableNotFound /\ cat.cfg = NilConfig

C19_Witness ==
    /\ cat.op = "TableGet" /\ cat.fault = Nil
    /\ cat.err = Nil
    /\ cat.cfg = TableConfig("id", 7, -1)
    /\ \E n \in CatalogTables : ~cat.tmap[n].present

\* C21: when the engine's Get fails with an error other than
\* ErrKeyNotFound, Insert, Replace and Get of the table store and Insert
\* and Get of the index store return that error and issue no Put; when the
\* engine's Delete fails with such an error, Delete of either store returns
\* it; the stores are left as they were.
C21_EngineErrorsVerbatim ==
    /\ ( /\ cat.op \in {"TableInsert", "TableReplace", "TableGet", "IndexInsert",
                        "IndexGet"}
         /\ cat.fault = "get" ) =>
           cat.err = ErrEngine /\ cat.puts = 0 /\ StoresUnchanged
    /\ (cat.op \in {"TableDelete", "IndexDelete"} /\ cat.fault = "delete") =>
           cat.err = ErrEngine /\ StoresUnchanged

C21_Witness ==
    /\ cat.op = "TableDelete" /\ cat.fault = "delete" /\ WasPresent
    /\ cat.err = ErrEngine
    /\ cat.tables[cat.name].present

----------------------------------------------------------------------------
(* Claims about dot paths *)

\* The values one selector away from v.
Children(v) ==
    IF v.type = "document" THEN {v.v[i].value : i \in DOMAIN v.v}
    ELSE IF v.type = "array" THEN {v.v[i] : i \in DOMAIN v.v}
    ELSE {}

RECURSIVE Descendants(_, _)
\* The values exactly n selectors away from a value of vs.
Descendants(vs, n) ==
    IF n = 0 THEN vs ELSE Descendants(UNION {Children(v) : v \in vs}, n - 1)

F(name) == FieldSel(name)
I(i) == IndexSel(i)

\* The paths of the test with the values it expects.
DotTests ==
    {<<(<<F("a")>>), NewIntValue(1)>>,
     <<(<<F("b")>>), FieldOf(TestDocument, "b")>>,
     <<(<<F("b"), F("foo bar"), I(0)>>), NewIntValue(1)>>,
     <<(<<F("b"), F("foo bar"), I(1)>>), NewIntValue(2)>>,
     <<(<<F("b"), F("foo bar"), I(2)>>), nullLitteral>>,
     <<(<<F("b"), I(0)>>), nullLitteral>>,
     <<(<<F("c"), I(0)>>), NewIntValue(1)>>,
     <<(<<F("c"), I(1), F("foo")>>), NewTextValue("bar")>>,
     <<(<<F("c"), F("foo")>>), nullLitteral>>,
     <<(<<F("d")>>), nullLitteral>>}

\* C15: a dot path evaluated with a document on the stack never returns an
\* error: it yields Null for an absent field, an index past the end, an
\* index selector on a document and a field selector on an array, and the
\* addressed value for a path that exists.
C15_DotPathNeverErrors ==
    (dot.op = "Eval" /\ dot.stack.hasDocument) =>
        /\ dot.err = Nil
        /\ dot.v \in {nullLitteral}
                        \cup Descendants({dot.stack.Document}, Len(dot.path))
        /\ \A t \in DotTests : dot.path = t[1] => dot.v = t[2]
        /\ (dot.path[1].kind = "index" \/ dot.path[1] = F("d")) =>
               dot.v = nullLitteral
        /\ ( /\ Len(dot.path) = 3
             /\ dot.path[1] = F("c") /\ dot.path[2] = I(2)
             /\ dot.path[3].kind = "index" ) =>
               dot.v = IF dot.path[3].i < 2 THEN NewIntValue(dot.path[3].i + 1)
                       ELSE nullLitteral

C15_Witness ==
    /\ dot.op = "Eval" /\ dot.stack.hasDocument
    /\ dot.path = <<F("b"), F("foo bar"), I(2)>>
    /\ dot.v = nullLitteral /\ dot.err = Nil

----------------------------------------------------------------------------
(* Claims about the parser *)

\* Token i of the input, EOF past its end.
TokAt(i) == IF i \in 1..Len(ps.toks) THEN ps.toks[i] ELSE EOF

\* The input begins with SET and k pairs `identifier = expr` separated by
\* commas: pair j occupies tokens 4j-2 .. 4j, the comma before it token 4j-3.
HasPairs(k) ==
    /\ TokAt(1) = SET
    /\ \A j \in 1..k :
        /\ TokAt(4 * j - 2).tok = "IDENT"
        /\ TokAt(4 * j - 1) = EQ
        /\ IsOperand(TokAt(4 * j))
        /\ j > 1 => TokAt(4 * j - 3) = COMMA

\* The input is SET and exactly k pairs, k at least 1.
IsSetClause(k) == k >= 1 /\ HasPairs(k) /\ TokAt(4 * k + 1) # COMMA

MaxClause == MaxPairs + 1

\* The expression of the last of k pairs that names field f.
LastAssigned(f, k) ==
    LET js == {j \in 1..k : TokAt(4 * j - 2).lit = f}
    IN IF js = {} THEN NoExpr
       ELSE TokAt(4 * (CHOOSE j \in js : \A i \in js : i <= j))

\* C22: parseSetClause succeeds exactly on SET followed by one or more
\* comma-separated `identifier = expr` pairs; it fails with a ParseError
\* when SET, an identifier (also after a trailing comma) or '=' is missing;
\* on success every field maps to the expression of its last pair, and the
\* token after the last pair is left for the parse of the WHERE clause.
C22_SetClause ==
    ps.pc \in {"set", "failed", "where"} =>
        /\ ps.pc # "failed" <=> \E k \in 1..MaxClause : IsSetClause(k)
        /\ ps.pc = "failed" =>
            /\ ps.err.kind = "ParseError"
            /\ ps.err.found = TokAt(ps.err.pos).lit
            /\ TokAt(1) # SET => ps.err.expected = "SET" /\ ps.err.pos = 1
            /\ \A k \in 0..MaxClause :
                (HasPairs(k) /\ (k = 0 \/ TokAt(4 * k + 1) = COMMA)) =>
                    /\ TokAt(4 * k + 2).tok # "IDENT" =>
                           ps.err.expected = "identifier" /\ ps.err.pos = 4 * k + 2
                    /\ (TokAt(4 * k + 2).tok = "IDENT" /\ TokAt(4 * k + 3) # EQ) =>
                           ps.err.expected = "=" /\ ps.err.pos = 4 * k + 3
        /\ ps.pc # "failed" =>
            \A k \in 1..MaxClause :
                IsSetClause(k) =>
                    /\ \A f \in FieldNames : ps.pairs[f] = LastAssigned(f, k)
                    /\ ps.pc = "set" => ps.pos = 4 * k
                    /\ ps.pc = "where" => ps.first = TokAt(4 * k + 1)

C22_Witness ==
    /\ ps.pc = "where"
    /\ ps.toks = <<SET, IDENT("a"), EQ, NUMBER("1"), COMMA, IDENT("a"), EQ,
                   NUMBER("2"), WHERE, IDENT("b")>>
    /\ ps.pairs = [NoPairs EXCEPT !["a"] = NUMBER("2")]
    /\ ps.first = WHERE

====
